---- MODULE Spec2Model ----
(***************************************************************************)
(* Model of the talent-flow (Sankey) layout pipeline of                    *)
(* scripts/viz/sankey.py: flow aggregation, node grouping, flow rewriting, *)
(* column layout, band allocation and the command line entry point.        *)
(*                                                                         *)
(* A Python dict is modelled as a sequence of <<key, value>> pairs with    *)
(* distinct keys, in insertion order.  Flow values are integers; heights   *)
(* and col_positions are exact rationals <<numerator, denominator>>.           *)
(***************************************************************************)
EXTENDS Integers, Sequences, FiniteSets, TLC

VARIABLES
    \* ---- the process: main() and render_sankey() ----
    stdin,               \* what json.load(sys.stdin) meets
    pc,                  \* position of the process
    raw_flows,           \* data.get("flows", [])
    source_totals,       \* prepare_data: source_totals (aggregate, then grouped)
    target_totals,       \* prepare_data: target_totals (aggregate, then grouped)
    grouped_src,         \* prepare_data: grouped_src
    grouped_tgt,         \* prepare_data: grouped_tgt
    flows,               \* prepare_data: flows (raw, then rewritten)
    source_totals_final, \* prepare_data: source_totals_final
    target_totals_final, \* prepare_data: target_totals_final
    src_positions,       \* render_sankey: src_positions
    tgt_positions,       \* render_sankey: tgt_positions
    src_colors,          \* render_sankey: src_colors
    tgt_colors,          \* render_sankey: tgt_colors
    src_consumed,        \* render_sankey: src_consumed
    tgt_consumed,        \* render_sankey: tgt_consumed
    sorted_flows,        \* render_sankey: sorted_flows
    next_flow,           \* index in sorted_flows of the band loop's next flow
    bands,               \* the calls of _draw_flow made so far, in order
    skipped,             \* number of flows the band loop skipped
    exit_code,           \* process exit status, -1 while running
    stderr,              \* the messages printed to standard error, in order
    render_calls,        \* number of calls of render_sankey
    layout_calls,        \* number of calls of _compute_node_positions
    save_calls,          \* number of calls of save
    placeholder,         \* TRUE once the "no data" chart was drawn
    \* ---- _group_small_nodes called on its own ----
    gpc,
    totals,              \* argument totals
    max_nodes,           \* argument max_nodes
    new_totals,          \* first component of the result
    grouped_names,       \* second component of the result
    regrouped,           \* the result of grouping new_totals again
    \* ---- _compute_node_positions called on its own ----
    lpc,
    col_totals,          \* argument totals
    col_y_start,         \* argument y_start
    col_y_end,           \* argument y_end
    col_positions            \* the result

prepVars == <<source_totals, target_totals, grouped_src, grouped_tgt, flows,
              source_totals_final, target_totals_final>>
drawVars == <<src_positions, tgt_positions, src_colors, tgt_colors, src_consumed,
              tgt_consumed, sorted_flows, next_flow, bands, skipped>>
procVars == <<stdin, pc, raw_flows, exit_code, stderr, render_calls, layout_calls,
              save_calls, placeholder>>
pipeVars == <<procVars, prepVars, drawVars>>
groupVars == <<gpc, totals, max_nodes, new_totals, grouped_names, regrouped>>
layoutVars == <<lpc, col_totals, col_y_start, col_y_end, col_positions>>
vars == <<pipeVars, groupVars, layoutVars>>

-----------------------------------------------------------------------------
(* Bounds of the model *)

MaxNodes == 4      \* longest totals map handed to _group_small_nodes alone
MaxVal == 2        \* largest node value in those maps
MaxCap == 3        \* largest max_nodes handed to _group_small_nodes alone
MaxHead == 1       \* free records in front of the generated records of an input
MaxBulk == 16      \* most generated records of an input
BulkValue == 2     \* the value of every generated record
MaxCol == 3        \* free nodes in front of the run of equal nodes of a column
MaxRun == 82       \* longest run of equal nodes of a column
BigValue == 159    \* the large node value of a column

-----------------------------------------------------------------------------
(* Program constants *)

MAX_NODES == 15

-----------------------------------------------------------------------------
(* Python dict and list helpers *)

\* d.keys()
DictKeys(d) == {d[i][1] : i \in DOMAIN d}

\* k in d
DictHas(d, k) == \E i \in DOMAIN d : d[i][1] = k

\* d.get(k, default)
DictGet(d, k, default) ==
    IF DictHas(d, k) THEN d[CHOOSE i \in DOMAIN d : d[i][1] = k][2] ELSE default

\* d[k] = v : an existing key keeps its place, a new key goes last
DictSet(d, k, v) ==
    IF DictHas(d, k)
    THEN [i \in DOMAIN d |-> IF d[i][1] = k THEN <<k, v>> ELSE d[i]]
    ELSE Append(d, <<k, v>>)

\* a sequence given by a rule [i \in 1..n |-> e], as an explicit list: TLC
\* then evaluates e once per i instead of once per use
Listed(seq) == SubSeq(seq, 1, Len(seq))

\* the sum of the values of items lo..hi (integer addition is associative, so
\* the halves are summed apart to keep the evaluation shallow)
RECURSIVE SumValuesTo(_, _, _)
SumValuesTo(items, lo, hi) ==
    IF lo > hi THEN 0
    ELSE IF lo = hi THEN items[lo][2]
    ELSE LET mid == (lo + hi) \div 2
         IN  SumValuesTo(items, lo, mid) + SumValuesTo(items, mid + 1, hi)

\* sum(val for _, val in items)
SumValues(items) == SumValuesTo(items, 1, Len(items))

\* a slip: sorted(items, key=...)[::-1], which also reverses the order of
\* equal values
SortedByValueDescTiesReversed(items) ==
    LET n == Len(items)
        rank == Listed([i \in 1..n |-> Cardinality({j \in 1..n :
                        \/ items[j][2] > items[i][2]
                        \/ items[j][2] = items[i][2] /\ j > i}) + 1])
    IN  [p \in 1..n |-> items[CHOOSE i \in 1..n : rank[i] = p]]

\* sorted(items, key=lambda x: x[1], reverse=True): descending by value,
\* equal values keep their original order (Python's sort is stable, also
\* under reverse=True)
SortedByValueDesc(items) ==
    LET n == Len(items)
        rank == Listed([i \in 1..n |-> Cardinality({j \in 1..n :
                        \/ items[j][2] > items[i][2]
                        \/ items[j][2] = items[i][2] /\ j < i}) + 1])
    IN  [p \in 1..n |-> items[CHOOSE i \in 1..n : rank[i] = p]]

\* items[:k] for k >= 0
Take(items, k) == SubSeq(items, 1, IF k < Len(items) THEN k ELSE Len(items))

\* items[k:] for k >= 0
Drop(items, k) == SubSeq(items, k + 1, Len(items))

-----------------------------------------------------------------------------
(* _group_small_nodes *)

\* a slip: the cap test is strict, so a map of exactly max_nodes entries is grouped
GroupSmallNodesStrict(t, cap) ==
    IF Len(t) < cap
    THEN [totals |-> t, grouped |-> {}]
    ELSE LET sorted_items == SortedByValueDesc(t)
             kept == Take(sorted_items, cap - 1)
             rest == Drop(sorted_items, cap - 1)
         IN  [totals  |-> DictSet(kept, "Other", SumValues(rest)),
              grouped |-> {rest[i][1] : i \in DOMAIN rest}]

\* a slip: the slices start at max_nodes, so max_nodes names are kept beside "Other"
GroupSmallNodesOffByOne(t, cap) ==
    IF Len(t) <= cap
    THEN [totals |-> t, grouped |-> {}]
    ELSE LET sorted_items == SortedByValueDesc(t)
             kept == Take(sorted_items, cap)
             rest == Drop(sorted_items, cap)
         IN  [totals  |-> DictSet(kept, "Other", SumValues(rest)),
              grouped |-> {rest[i][1] : i \in DOMAIN rest}]

_group_small_nodes(t, cap) ==
    IF Len(t) <= cap
    THEN [totals |-> t, grouped |-> {}]
    ELSE LET sorted_items == SortedByValueDesc(t)
             kept == Take(sorted_items, cap - 1)
             rest == Drop(sorted_items, cap - 1)
         IN  [totals  |-> DictSet(kept, "Other", SumValues(rest)),
              grouped |-> {rest[i][1] : i \in DOMAIN rest}]

-----------------------------------------------------------------------------
(* _aggregate_flows, _rewrite_flows, prepare_data                          *)
(*                                                                         *)
(* A raw record is [source, target, value].  source = "" stands for an     *)
(* empty or a missing "source" (str(f.get("source", "")) is "" for both),  *)
(* likewise target; value 0 stands for a zero or a missing "value".        *)

\* a slip: the empty-target test is forgotten
IsDiscardedNoTargetTest(f) == f.value <= 0 \/ f.source = ""

\* val <= 0 or not src or not tgt
IsDiscarded(f) == f.value <= 0 \/ f.source = "" \/ f.target = ""

\* a slip: a repeated name overwrites its total instead of adding to it
RECURSIVE AggregateLoopOverwrite(_, _, _)
AggregateLoopOverwrite(fs, st, tt) ==
    IF fs = <<>>
    THEN [source_totals |-> st, target_totals |-> tt]
    ELSE LET f == Head(fs)
         IN  IF IsDiscarded(f)
             THEN AggregateLoopOverwrite(Tail(fs), st, tt)
             ELSE AggregateLoopOverwrite(Tail(fs),
                    DictSet(st, f.source, f.value),
                    DictSet(tt, f.target, f.value))

\* the loop of _aggregate_flows over the records fs, from the totals st, tt
RECURSIVE AggregateLoop(_, _, _)
AggregateLoop(fs, st, tt) ==
    IF fs = <<>>
    THEN [source_totals |-> st, target_totals |-> tt]
    ELSE LET f == Head(fs)
         IN  IF IsDiscarded(f)
             THEN AggregateLoop(Tail(fs), st, tt)
             ELSE AggregateLoop(Tail(fs),
                    DictSet(st, f.source, DictGet(st, f.source, 0) + f.value),
                    DictSet(tt, f.target, DictGet(tt, f.target, 0) + f.value))

\* returns (source_totals, target_totals, flows): the third component is the
\* list it was given
_aggregate_flows(fs) ==
    LET r == AggregateLoop(fs, <<>>, <<>>)
    IN  [source_totals |-> r.source_totals,
         target_totals |-> r.target_totals,
         flows         |-> fs]

\* a slip: the renaming of a grouped name is forgotten
RenameForgotten(name, grouped) == name

\* if name in grouped: name = "Other"
Rename(name, grouped) == IF name \in grouped THEN "Other" ELSE name

\* src = "Other" if src in grouped_sources
RenameSource(name, grouped) == Rename(name, grouped)

\* a slip: merged[key] = val, a colliding flow replaces the merged value
RECURSIVE RewriteLoopOverwrite(_, _, _, _)
RewriteLoopOverwrite(fs, grouped_sources, grouped_targets, merged) ==
    IF fs = <<>>
    THEN merged
    ELSE LET f == Head(fs)
             key == <<RenameSource(f.source, grouped_sources),
                      Rename(f.target, grouped_targets)>>
         IN  IF IsDiscarded(f)
             THEN RewriteLoopOverwrite(Tail(fs), grouped_sources, grouped_targets, merged)
             ELSE RewriteLoopOverwrite(Tail(fs), grouped_sources, grouped_targets,
                                       DictSet(merged, key, f.value))

\* the loop of _rewrite_flows: merged maps (source, target) to the summed value
RECURSIVE RewriteLoop(_, _, _, _)
RewriteLoop(fs, grouped_sources, grouped_targets, merged) ==
    IF fs = <<>>
    THEN merged
    ELSE LET f == Head(fs)
             key == <<RenameSource(f.source, grouped_sources),
                      Rename(f.target, grouped_targets)>>
         IN  IF IsDiscarded(f)
             THEN RewriteLoop(Tail(fs), grouped_sources, grouped_targets, merged)
             ELSE RewriteLoop(Tail(fs), grouped_sources, grouped_targets,
                              DictSet(merged, key, DictGet(merged, key, 0) + f.value))

\* a slip: one set of grouped names serves both columns
RewriteFlowsSharedGroups(fs, grouped_sources, grouped_targets) ==
    LET grouped == grouped_sources \cup grouped_targets
        merged == RewriteLoop(fs, grouped, grouped, <<>>)
    IN  [i \in DOMAIN merged |->
            [source |-> merged[i][1][1], target |-> merged[i][1][2],
             value  |-> merged[i][2]]]

\* returns [{"source": s, "target": t, "value": v} for (s, t), v in merged.items()]
_rewrite_flows(fs, grouped_sources, grouped_targets) ==
    LET merged == RewriteLoop(fs, grouped_sources, grouped_targets, <<>>)
    IN  [i \in DOMAIN merged |->
            [source |-> merged[i][1][1], target |-> merged[i][1][2],
             value  |-> merged[i][2]]]

\* a slip: the target total filed under the flow's source name
RECURSIVE ReaggregateLoopSourceKey(_, _, _)
ReaggregateLoopSourceKey(fs, st, tt) ==
    IF fs = <<>>
    THEN [source_totals |-> st, target_totals |-> tt]
    ELSE LET f == Head(fs)
         IN  ReaggregateLoopSourceKey(Tail(fs),
                DictSet(st, f.source, DictGet(st, f.source, 0) + f.value),
                DictSet(tt, f.source, DictGet(tt, f.source, 0) + f.value))

\* the re-aggregation loop of prepare_data over the rewritten flows
RECURSIVE ReaggregateLoop(_, _, _)
ReaggregateLoop(fs, st, tt) ==
    IF fs = <<>>
    THEN [source_totals |-> st, target_totals |-> tt]
    ELSE LET f == Head(fs)
         IN  ReaggregateLoop(Tail(fs),
                DictSet(st, f.source, DictGet(st, f.source, 0) + f.value),
                DictSet(tt, f.target, DictGet(tt, f.target, 0) + f.value))

-----------------------------------------------------------------------------
(* Exact arithmetic for the floats of the layout: a number is <<n, d>>     *)
(* with d > 0 and n, d coprime.                                            *)

Abs(n) == IF n < 0 THEN -n ELSE n

RECURSIVE GCD(_, _)
GCD(a, b) == IF b = 0 THEN a ELSE GCD(b, a % b)

Rat(n, d) ==
    LET g == GCD(Abs(n), Abs(d))
        sgn == IF d < 0 THEN -1 ELSE 1
    IN  <<(sgn * n) \div g, (sgn * d) \div g>>

RInt(n) == <<n, 1>>
RZero == RInt(0)

RAdd(a, b) ==
    LET g == GCD(a[2], b[2])
    IN  Rat(a[1] * (b[2] \div g) + b[1] * (a[2] \div g), (a[2] \div g) * b[2])

RNeg(a) == <<-a[1], a[2]>>
RSub(a, b) == RAdd(a, RNeg(b))

RMul(a, b) ==
    LET g1 == GCD(Abs(a[1]), b[2])
        g2 == GCD(Abs(b[1]), a[2])
    IN  Rat((a[1] \div g1) * (b[1] \div g2), (a[2] \div g2) * (b[2] \div g1))

\* a / b for b # 0
RDiv(a, b) == RMul(a, Rat(b[2], b[1]))

\* a < b and a <= b, by the sign of a - b
RLt(a, b) == RSub(a, b)[1] < 0
RLe(a, b) == RSub(a, b)[1] <= 0

\* sum of the numbers lo..hi of a sequence (exact addition is associative)
RECURSIVE RSumTo(_, _, _)
RSumTo(hs, lo, hi) ==
    IF lo > hi THEN RZero
    ELSE IF lo = hi THEN hs[lo]
    ELSE LET mid == (lo + hi) \div 2
         IN  RAdd(RSumTo(hs, lo, mid), RSumTo(hs, mid + 1, hi))

\* sum of a sequence of numbers
RSum(hs) == RSumTo(hs, 1, Len(hs))

-----------------------------------------------------------------------------
(* Layout constants (floats of the source, as exact fractions) *)

NODE_PAD_FRAC == <<7, 20>>              \* 0.35
\* a slip: 0.08 for 0.008
MinNodeHeightFracTenfold == <<2, 25>>
MIN_NODE_HEIGHT_FRAC == <<1, 125>>      \* 0.008
FLOW_ALPHA == <<19, 50>>                \* 0.38
FLOW_ALPHA_HOVER == <<11, 20>>          \* 0.55
NODE_WIDTH == <<1, 25>>                 \* 0.04

-----------------------------------------------------------------------------
(* _compute_node_positions *)

\* pad_total / max(node_count - 1, 1) if node_count > 1 else 0
PadEach(node_count, pad_total) ==
    IF node_count > 1
    THEN RDiv(pad_total, RInt(IF node_count - 1 > 1 THEN node_count - 1 ELSE 1))
    ELSE RZero

\* [(name, (val / total_value) * drawable_height) for name, val in sorted_nodes]
RawHeights(sorted_nodes, total_value, drawable_height) ==
    Listed([i \in DOMAIN sorted_nodes |->
        <<sorted_nodes[i][1],
          RMul(Rat(sorted_nodes[i][2], total_value), drawable_height)>>])

\* the minimum-height loop: a height below min_h becomes min_h
EnforceMinimum(raw_heights, min_h) ==
    Listed([i \in DOMAIN raw_heights |->
        IF RLt(raw_heights[i][2], min_h)
        THEN <<raw_heights[i][1], min_h>>
        ELSE raw_heights[i]])

\* a slip: "stolen += min_h - h" is forgotten, so nothing is taken back
StolenForgotten(raw_heights, min_h) == RZero

\* stolen: what the minimum-height loop added in all
Stolen(raw_heights, min_h) ==
    RSum([i \in DOMAIN raw_heights |->
            IF RLt(raw_heights[i][2], min_h)
            THEN RSub(min_h, raw_heights[i][2])
            ELSE RZero])

\* sum(h for _, h in adjusted if h > min_h)
LargeTotal(adjusted, min_h) ==
    RSum([i \in DOMAIN adjusted |->
            IF RLt(min_h, adjusted[i][2]) THEN adjusted[i][2] ELSE RZero])

\* a slip: the test "if h > min_h" of the shrink is forgotten, so the nodes
\* at the floor are shrunk as well
RedistributeNoGuard(adjusted, stolen, min_h) ==
    IF RLt(RZero, stolen)
    THEN LET large_total == LargeTotal(adjusted, min_h)
         IN  IF RLt(RZero, large_total)
             THEN Listed([i \in DOMAIN adjusted |->
                    LET h == adjusted[i][2]
                    IN  <<adjusted[i][1],
                          RSub(h, RMul(RDiv(h, large_total), stolen))>>])
             ELSE adjusted
    ELSE adjusted

\* the redistribution of the stolen height over the nodes above min_h
Redistribute(adjusted, stolen, min_h) ==
    IF RLt(RZero, stolen)
    THEN LET large_total == LargeTotal(adjusted, min_h)
         IN  IF RLt(RZero, large_total)
             THEN Listed([i \in DOMAIN adjusted |->
                    LET h == adjusted[i][2]
                    IN  <<adjusted[i][1],
                          IF RLt(min_h, h)
                          THEN RSub(h, RMul(RDiv(h, large_total), stolen))
                          ELSE h>>])
             ELSE adjusted
    ELSE adjusted

\* a slip: y_cursor -= h, the gap under the node is forgotten
RECURSIVE CursorsNoPad(_, _, _, _, _)
CursorsNoPad(adjusted, lo, hi, cursor, pad_each) ==
    IF lo = hi
    THEN <<cursor>>
    ELSE LET mid == (lo + hi) \div 2
             before == CursorsNoPad(adjusted, lo, mid, cursor, pad_each)
             y_cursor == RSub(before[Len(before)], adjusted[mid][2])
         IN  before \o CursorsNoPad(adjusted, mid + 1, hi, y_cursor, pad_each)

\* y_cursor before each of the nodes lo..hi of the placement loop, where
\* cursor is its value before node lo: it goes down by h + pad_each after
\* every node
RECURSIVE Cursors(_, _, _, _, _)
Cursors(adjusted, lo, hi, cursor, pad_each) ==
    IF lo = hi
    THEN <<cursor>>
    ELSE LET mid == (lo + hi) \div 2
             before == Cursors(adjusted, lo, mid, cursor, pad_each)
             y_cursor == RSub(before[Len(before)], RAdd(adjusted[mid][2], pad_each))
         IN  before \o Cursors(adjusted, mid + 1, hi, y_cursor, pad_each)

\* the placement loop: positions[name] = (y_center, y_top, h)
AssignPositions(adjusted, y_end, pad_each) ==
    LET cursor == Cursors(adjusted, 1, Len(adjusted), y_end, pad_each)
    IN  [i \in DOMAIN adjusted |->
            LET y_top == cursor[i]
                h == adjusted[i][2]
            IN  <<adjusted[i][1], <<RSub(y_top, RDiv(h, RInt(2))), y_top, h>>>>]

\* a slip: a column whose values sum to nothing is placed with heights of 0
\* instead of being left out
ComputeNodePositionsNoZeroGuard(t, x, y_start, y_end) ==
    IF t = <<>>
    THEN <<>>
    ELSE LET sorted_nodes == SortedByValueDesc(t)
             total_value == SumValues(sorted_nodes)
             available_height == RSub(y_end, y_start)
             node_count == Len(sorted_nodes)
             pad_total == RMul(available_height, NODE_PAD_FRAC)
             pad_each == PadEach(node_count, pad_total)
             drawable_height == RSub(available_height, pad_total)
             min_h == RMul(available_height, MIN_NODE_HEIGHT_FRAC)
         IN  IF total_value <= 0
             THEN AssignPositions([i \in DOMAIN sorted_nodes |-> <<sorted_nodes[i][1], RZero>>],
                                  y_end, pad_each)
             ELSE LET raw_heights == RawHeights(sorted_nodes, total_value, drawable_height)
                      adjusted == EnforceMinimum(raw_heights, min_h)
                      stolen == Stolen(raw_heights, min_h)
                  IN  AssignPositions(Redistribute(adjusted, stolen, min_h),
                                      y_end, pad_each)

\* returns {name: (y_center, y_top, height)}, in descending order of value
_compute_node_positions(t, x, y_start, y_end) ==
    IF t = <<>>
    THEN <<>>
    ELSE LET sorted_nodes == SortedByValueDesc(t)
             total_value == SumValues(sorted_nodes)
         IN  IF total_value <= 0
             THEN <<>>
             ELSE LET available_height == RSub(y_end, y_start)
                      node_count == Len(sorted_nodes)
                      pad_total == RMul(available_height, NODE_PAD_FRAC)
                      pad_each == PadEach(node_count, pad_total)
                      drawable_height == RSub(available_height, pad_total)
                      raw_heights == RawHeights(sorted_nodes, total_value, drawable_height)
                      min_h == RMul(available_height, MIN_NODE_HEIGHT_FRAC)
                      adjusted == EnforceMinimum(raw_heights, min_h)
                      stolen == Stolen(raw_heights, min_h)
                  IN  AssignPositions(Redistribute(adjusted, stolen, min_h),
                                      y_end, pad_each)

-----------------------------------------------------------------------------
(* Colours and the helpers of render_sankey *)

PALETTE == <<"#6D28D9", "#3B82F6", "#10B981", "#F59E0B", "#EF4444",
             "#8B5CF6", "#EC4899", "#14B8A6", "#F97316", "#6B7280">>

\* a slip: the index is clamped to the last colour instead of wrapping round
GetColorClamped(index) == PALETTE[IF index < Len(PALETTE) THEN index + 1 ELSE Len(PALETTE)]

\* PALETTE[index % len(PALETTE)]
get_color(index) == PALETTE[(index % Len(PALETTE)) + 1]

\* a slip: sorted(totals.keys(), key=...)[::-1], which also reverses the
\* order of keys with equal totals
SortedKeysDescTiesReversed(d) ==
    LET n == Len(d)
        key == Listed([i \in 1..n |-> DictGet(d, d[i][1], 0)])
        rank == Listed([i \in 1..n |-> Cardinality({j \in 1..n :
                        \/ key[j] > key[i]
                        \/ key[j] = key[i] /\ j > i}) + 1])
    IN  [p \in 1..n |-> d[CHOOSE i \in 1..n : rank[i] = p][1]]

\* sorted(totals.keys(), key=lambda k: totals[k], reverse=True)
SortedKeysDesc(d) ==
    LET n == Len(d)
        key == Listed([i \in 1..n |-> DictGet(d, d[i][1], 0)])
        rank == Listed([i \in 1..n |-> Cardinality({j \in 1..n :
                        \/ key[j] > key[i]
                        \/ key[j] = key[i] /\ j < i}) + 1])
    IN  [p \in 1..n |-> d[CHOOSE i \in 1..n : rank[i] = p][1]]

\* returns (src_colors, tgt_colors)
_assign_colors(source_names, target_names) ==
    [src_colors |-> [i \in DOMAIN source_names |->
                        <<source_names[i], get_color(i - 1)>>],
     tgt_colors |-> [i \in DOMAIN target_names |->
                        <<target_names[i], get_color(Len(source_names) + i - 1)>>]]

\* a slip: reverse=True is forgotten, the flows come in ascending order
SortedFlowsAsc(fs) ==
    LET n == Len(fs)
        rank == Listed([i \in 1..n |-> Cardinality({j \in 1..n :
                        \/ fs[j].value < fs[i].value
                        \/ fs[j].value = fs[i].value /\ j < i}) + 1])
    IN  [p \in 1..n |-> fs[CHOOSE i \in 1..n : rank[i] = p]]

\* sorted(flows, key=lambda f: f["value"], reverse=True)
SortedFlowsDesc(fs) ==
    LET n == Len(fs)
        rank == Listed([i \in 1..n |-> Cardinality({j \in 1..n :
                        \/ fs[j].value > fs[i].value
                        \/ fs[j].value = fs[i].value /\ j < i}) + 1])
    IN  [p \in 1..n |-> fs[CHOOSE i \in 1..n : rank[i] = p]]

\* {name: 0.0 for name in positions}
ZeroConsumed(positions) == [i \in DOMAIN positions |-> <<positions[i][1], RZero>>]

\* a slip: val // total, the floor division, instead of val / total
FlowHeightFloorDiv(val, total, node_h) ==
    IF total > 0 THEN RMul(RInt(val \div total), node_h) ELSE RZero

\* a slip: the share of the node is forgotten, every band gets the whole height
FlowHeightWholeNode(val, total, node_h) ==
    IF total > 0 THEN node_h ELSE RZero

\* (val / total) * node_h if total > 0 else 0
FlowHeight(val, total, node_h) ==
    IF total > 0 THEN RMul(Rat(val, total), node_h) ELSE RZero

\* a slip: (max_val / val), the ratio upside down
FlowAlphaInverted(val, max_val) ==
    RAdd(FLOW_ALPHA, RMul(RSub(FLOW_ALPHA_HOVER, FLOW_ALPHA), Rat(max_val, val)))

\* FLOW_ALPHA + (FLOW_ALPHA_HOVER - FLOW_ALPHA) * (val / max_val)
FlowAlpha(val, max_val) ==
    RAdd(FLOW_ALPHA, RMul(RSub(FLOW_ALPHA_HOVER, FLOW_ALPHA), Rat(val, max_val)))

\* all(float(f.get("value", 0)) <= 0 for f in raw_flows)
AllNonPositive(fs) == \A i \in DOMAIN fs : fs[i].value <= 0

\* the layout parameters of render_sankey
left_x == <<9, 50>>       \* 0.18
right_x == <<39, 50>>     \* 0.78
y_start == <<1, 20>>      \* 0.05
y_end == <<23, 25>>       \* 0.92

-----------------------------------------------------------------------------
(* _group_small_nodes called on its own: every totals map of at most       *)
(* MaxNodes distinct names, a real node named "Other" among them, every    *)
(* value in 1..MaxVal, every cap in 1..MaxCap.                             *)

NamePool == <<"Other", "A", "B", "C", "D", "E">>

\* the name of the i-th generated node
BulkName(i) == "n" \o ToString(i)

GroupNames == {NamePool[i] : i \in 1..(IF MaxNodes < Len(NamePool) THEN MaxNodes ELSE Len(NamePool))}

IsDict(d) == \A i, j \in DOMAIN d : d[i][1] = d[j][1] => i = j

TotalsMaps ==
    UNION {{d \in [1..n -> GroupNames \X (1..MaxVal)] : IsDict(d)} : n \in 0..MaxNodes}

\* the state of the process before main() has read anything
PipeStart ==
    /\ raw_flows = <<>>
    /\ source_totals = <<>>
    /\ target_totals = <<>>
    /\ grouped_src = {}
    /\ grouped_tgt = {}
    /\ flows = <<>>
    /\ source_totals_final = <<>>
    /\ target_totals_final = <<>>
    /\ src_positions = <<>>
    /\ tgt_positions = <<>>
    /\ src_colors = <<>>
    /\ tgt_colors = <<>>
    /\ src_consumed = <<>>
    /\ tgt_consumed = <<>>
    /\ sorted_flows = <<>>
    /\ next_flow = 0
    /\ bands = <<>>
    /\ skipped = 0
    /\ exit_code = -1
    /\ stderr = <<>>
    /\ render_calls = 0
    /\ layout_calls = 0
    /\ save_calls = 0
    /\ placeholder = FALSE

PipeIdle ==
    /\ stdin = [kind |-> "none", has_flows |-> FALSE, flows |-> <<>>]
    /\ pc = "idle"
    /\ PipeStart

GroupIdle ==
    /\ gpc = "idle"
    /\ totals = <<>>
    /\ max_nodes = 0
    /\ new_totals = <<>>
    /\ grouped_names = {}
    /\ regrouped = [totals |-> <<>>, grouped |-> {}]

LayoutIdle ==
    /\ lpc = "idle"
    /\ col_totals = <<>>
    /\ col_y_start = RZero
    /\ col_y_end = RZero
    /\ col_positions = <<>>

InitGroup ==
    /\ PipeIdle
    /\ LayoutIdle
    /\ gpc = "call"
    /\ totals \in TotalsMaps
    /\ max_nodes \in 1..MaxCap
    /\ new_totals = <<>>
    /\ grouped_names = {}
    /\ regrouped = [totals |-> <<>>, grouped |-> {}]

\* new_totals, grouped = _group_small_nodes(totals, max_nodes)
GroupCall ==
    /\ gpc = "call"
    /\ LET r == _group_small_nodes(totals, max_nodes)
       IN  /\ new_totals' = r.totals
           /\ grouped_names' = r.grouped
    /\ gpc' = "returned"
    /\ UNCHANGED <<totals, max_nodes, regrouped, pipeVars, layoutVars>>

\* _group_small_nodes(new_totals, max_nodes): the function applied to its own output
GroupAgain ==
    /\ gpc = "returned"
    /\ regrouped' = _group_small_nodes(new_totals, max_nodes)
    /\ gpc' = "regrouped"
    /\ UNCHANGED <<totals, max_nodes, new_totals, grouped_names, pipeVars, layoutVars>>

NextGroup == GroupCall \/ GroupAgain

SpecGroup == InitGroup /\ [][NextGroup]_vars

-----------------------------------------------------------------------------
(* Claims about _group_small_nodes *)

GroupReturned == gpc \in {"returned", "regrouped"}

\* C1: grouping conserves value: the values of the returned totals map sum
\* to the sum of the values of the input totals map, for every map (a real
\* node named "Other" included) and every cap >= 1.
C1_ValueConservation ==
    GroupReturned => SumValues(new_totals) = SumValues(totals)

\* C6: a map of at most max_nodes entries is returned unchanged, with an
\* empty grouped set (so no "Other" entry is added); and grouping the output
\* of a grouping again, with the same cap, returns that output unchanged.
C6_IdempotentGrouping ==
    /\ (GroupReturned /\ Len(totals) <= max_nodes)
            => (new_totals = totals /\ grouped_names = {})
    /\ (gpc = "regrouped")
            => (regrouped.totals = new_totals /\ regrouped.grouped = {})

\* C6 witness: a grouping that merged nodes away was applied a second time,
\* and a map of exactly max_nodes entries went through the function.
C6_Witness ==
    /\ gpc = "regrouped"
    /\ grouped_names # {}
    /\ Len(new_totals) = max_nodes

AllSameValue(d) == \A i, j \in DOMAIN d : d[i][2] = d[j][2]

\* C10: a column of N > C nodes that all have the same value v is grouped
\* into exactly C entries: the first C - 1 nodes in insertion order, each
\* with value v, and one entry "Other" with value (N - C + 1) * v.
C10_EqualValuesGrouping ==
    (GroupReturned /\ Len(totals) > max_nodes /\ AllSameValue(totals))
        => /\ Len(new_totals) = max_nodes
           /\ \A i \in 1..(max_nodes - 1) : new_totals[i] = totals[i]
           /\ new_totals[max_nodes] =
                    <<"Other", (Len(totals) - max_nodes + 1) * totals[1][2]>>

-----------------------------------------------------------------------------
(* _compute_node_positions called on its own: columns of up to MaxCol free *)
(* nodes (values 1, 2 and BigValue) followed by a run of nodes of value 1, *)
(* and columns of nodes of value 0 or -1, over the span of render_sankey    *)
(* and over the unit span.                                                 *)

ColumnValues == {1, 2, BigValue}

ColumnName(i) == BulkName(i)

RunLengths == {0, MAX_NODES - MaxCol, MaxRun}

PositiveColumns ==
    {[i \in 1..(Len(h) + k) |->
        <<ColumnName(i), IF i <= Len(h) THEN h[i] ELSE 1>>] :
        h \in UNION {[1..n -> ColumnValues] : n \in 0..MaxCol}, k \in RunLengths}

ZeroColumns ==
    {[i \in 1..Len(h) |-> <<ColumnName(i), h[i]>>] :
        h \in UNION {[1..n -> {0, -1}] : n \in 0..MaxCol}}

Columns == PositiveColumns \cup ZeroColumns

Spans == {<<RZero, RInt(1)>>, <<y_start, y_end>>}

InitLayout ==
    /\ PipeIdle
    /\ GroupIdle
    /\ lpc = "call"
    /\ col_totals \in Columns
    /\ \E span \in Spans : col_y_start = span[1] /\ col_y_end = span[2]
    /\ col_positions = <<>>

\* positions = _compute_node_positions(totals, x, y_start, y_end)
LayoutCall ==
    /\ lpc = "call"
    /\ col_positions' = _compute_node_positions(col_totals, left_x, col_y_start, col_y_end)
    /\ lpc' = "returned"
    /\ UNCHANGED <<col_totals, col_y_start, col_y_end, pipeVars, groupVars>>

NextLayout == LayoutCall

SpecLayout == InitLayout /\ [][NextLayout]_vars

-----------------------------------------------------------------------------
(* Claims about _compute_node_positions *)

LayoutReturned == lpc = "returned"

AvailableHeight == RSub(col_y_end, col_y_start)
MinHeight == RMul(AvailableHeight, MIN_NODE_HEIGHT_FRAC)

\* the heights of the placed nodes, top to bottom
PlacedHeights == [i \in DOMAIN col_positions |-> col_positions[i][2][3]]

\* the gap under the i-th placed node: from its bottom to the top of the next
GapBelow(i) ==
    RSub(RSub(col_positions[i][2][2], col_positions[i][2][3]), col_positions[i + 1][2][2])

PlacedGaps == [i \in 1..(Len(col_positions) - 1) |-> GapBelow(i)]

AllPinned == \A i \in DOMAIN col_positions : col_positions[i][2][3] = MinHeight

\* C3: in a non-empty column with positive total, the node heights plus the
\* node_count - 1 gaps between the nodes add up to y_end - y_start, for every
\* node count >= 1, unless every node is pinned at the minimum floor.
C3_HeightConservation ==
    (LayoutReturned /\ col_positions # <<>> /\ ~AllPinned)
        => RAdd(RSum(PlacedHeights), RSum(PlacedGaps)) = AvailableHeight

\* C4: in a non-empty column with positive total every node height is at
\* least (y_end - y_start) * MIN_NODE_HEIGHT_FRAC, also after the shrink of
\* the nodes above the floor.
C4_MinimumFloor ==
    LayoutReturned
        => \A i \in DOMAIN col_positions : RLe(MinHeight, col_positions[i][2][3])

-----------------------------------------------------------------------------
(* The process: main() reads standard input and calls render_sankey.       *)
(*                                                                         *)
(* The inputs: text that is no JSON, JSON that is no object, an object     *)
(* without "flows", and objects whose "flows" are up to MaxHead free       *)
(* records followed by a generated run of distinct nodes, long enough for  *)
(* a column to pass MAX_NODES.                                             *)

HeadNames == {"", "A", "Other"}
HeadValues == {0, BulkValue - 1, BulkValue + 1}
HeadRecords == [source : HeadNames, target : HeadNames, value : HeadValues]

Heads == UNION {[1..n -> HeadRecords] : n \in 0..MaxHead}

\* k generated records: many sources into "A", "A" into many targets, or
\* the i-th of k sources into the i-th last of k targets
Bulk(mode, k) ==
    [i \in 1..k |->
        CASE mode = "fan_in"  -> [source |-> BulkName(i), target |-> "A", value |-> BulkValue]
          [] mode = "fan_out" -> [source |-> "A", target |-> BulkName(i), value |-> BulkValue]
          [] mode = "cross"   -> [source |-> BulkName(i), target |-> BulkName(k + 1 - i),
                                  value |-> BulkValue]]

BulkSizes == {MAX_NODES - 1, MaxBulk}

Bulks == {<<>>} \cup {Bulk(mode, k) : mode \in {"fan_in", "fan_out", "cross"}, k \in BulkSizes}

FlowLists == {h \o b : h \in Heads, b \in Bulks}

Inputs ==
    {[kind |-> "invalid", has_flows |-> FALSE, flows |-> <<>>],
     [kind |-> "nonobject", has_flows |-> FALSE, flows |-> <<>>],
     [kind |-> "object", has_flows |-> FALSE, flows |-> <<>>]}
    \cup {[kind |-> "object", has_flows |-> TRUE, flows |-> fs] : fs \in FlowLists}

Init ==
    /\ stdin \in Inputs
    /\ pc = "main"
    /\ PipeStart
    /\ GroupIdle
    /\ LayoutIdle

\* the "no data" chart: setup_figure, ax.text, save(fig, output_path), return
DrawPlaceholder ==
    /\ placeholder' = TRUE
    /\ save_calls' = save_calls + 1
    /\ pc' = "returned"

\* a slip: the except branch prints the error and forgets sys.exit(1)
MainForgetsExit ==
    /\ pc = "main"
    /\ stderr' = (IF stdin.kind = "invalid"
                  THEN Append(stderr, "Error: Invalid JSON input")
                  ELSE stderr)
    /\ render_calls' = render_calls + 1
    /\ pc' = "render"
    /\ UNCHANGED <<stdin, raw_flows, exit_code, layout_calls, save_calls, placeholder,
                   prepVars, drawVars, groupVars, layoutVars>>

\* main: json.load(sys.stdin), then either the error exit or render_sankey(data, ...)
Main ==
    /\ pc = "main"
    /\ IF stdin.kind = "invalid"
       THEN /\ stderr' = Append(stderr, "Error: Invalid JSON input")
            /\ exit_code' = 1
            /\ pc' = "exit"
            /\ UNCHANGED render_calls
       ELSE /\ render_calls' = render_calls + 1
            /\ pc' = "render"
            /\ UNCHANGED <<stderr, exit_code>>
    /\ UNCHANGED <<stdin, raw_flows, layout_calls, save_calls, placeholder,
                   prepVars, drawVars, groupVars, layoutVars>>

\* render_sankey up to the empty-flows test: data.get on a value that is no
\* object raises AttributeError, which nothing catches
RenderStart ==
    /\ pc = "render"
    /\ IF stdin.kind # "object"
       THEN /\ stderr' = Append(stderr, "Traceback: AttributeError")
            /\ exit_code' = 1
            /\ pc' = "exit"
            /\ UNCHANGED <<raw_flows, save_calls, placeholder>>
       ELSE /\ raw_flows' = (IF stdin.has_flows THEN stdin.flows ELSE <<>>)
            /\ IF raw_flows' = <<>> \/ AllNonPositive(raw_flows')
               THEN /\ stderr' = Append(stderr, "No flows to display")
                    /\ DrawPlaceholder
               ELSE /\ pc' = "aggregate"
                    /\ UNCHANGED <<stderr, save_calls, placeholder>>
            /\ UNCHANGED exit_code
    /\ UNCHANGED <<stdin, render_calls, layout_calls, prepVars, drawVars, groupVars, layoutVars>>

\* prepare_data: source_totals, target_totals, flows = _aggregate_flows(raw_flows)
Aggregate ==
    /\ pc = "aggregate"
    /\ LET r == _aggregate_flows(raw_flows)
       IN  /\ source_totals' = r.source_totals
           /\ target_totals' = r.target_totals
           /\ flows' = r.flows
    /\ pc' = "group"
    /\ UNCHANGED <<stdin, raw_flows, exit_code, stderr, render_calls, layout_calls,
                   save_calls, placeholder, grouped_src, grouped_tgt,
                   source_totals_final, target_totals_final, drawVars, groupVars, layoutVars>>

\* prepare_data: the two calls of _group_small_nodes(..., MAX_NODES)
Group ==
    /\ pc = "group"
    /\ LET s == _group_small_nodes(source_totals, MAX_NODES)
           t == _group_small_nodes(target_totals, MAX_NODES)
       IN  /\ source_totals' = s.totals
           /\ grouped_src' = s.grouped
           /\ target_totals' = t.totals
           /\ grouped_tgt' = t.grouped
    /\ pc' = "rewrite"
    /\ UNCHANGED <<stdin, raw_flows, exit_code, stderr, render_calls, layout_calls,
                   save_calls, placeholder, flows, source_totals_final,
                   target_totals_final, drawVars, groupVars, layoutVars>>

\* prepare_data: flows = _rewrite_flows(flows, grouped_src, grouped_tgt)
Rewrite ==
    /\ pc = "rewrite"
    /\ flows' = _rewrite_flows(flows, grouped_src, grouped_tgt)
    /\ pc' = "reaggregate"
    /\ UNCHANGED <<stdin, raw_flows, exit_code, stderr, render_calls, layout_calls,
                   save_calls, placeholder, source_totals, target_totals, grouped_src,
                   grouped_tgt, source_totals_final, target_totals_final, drawVars,
                   groupVars, layoutVars>>

\* a slip: prepare_data returns the totals of the grouping, not re-aggregated
ReaggregateSkipped ==
    /\ pc = "reaggregate"
    /\ source_totals_final' = source_totals
    /\ target_totals_final' = target_totals
    /\ pc' = "prepared"
    /\ UNCHANGED <<stdin, raw_flows, exit_code, stderr, render_calls, layout_calls,
                   save_calls, placeholder, source_totals, target_totals, grouped_src,
                   grouped_tgt, flows, drawVars, groupVars, layoutVars>>

\* prepare_data: the re-aggregation loop and the return
Reaggregate ==
    /\ pc = "reaggregate"
    /\ LET r == ReaggregateLoop(flows, <<>>, <<>>)
       IN  /\ source_totals_final' = r.source_totals
           /\ target_totals_final' = r.target_totals
    /\ pc' = "prepared"
    /\ UNCHANGED <<stdin, raw_flows, exit_code, stderr, render_calls, layout_calls,
                   save_calls, placeholder, source_totals, target_totals, grouped_src,
                   grouped_tgt, flows, drawVars, groupVars, layoutVars>>

\* render_sankey: if not source_totals or not target_totals: the "no data" chart
RenderNoValidFlows ==
    /\ pc = "prepared"
    /\ source_totals_final = <<>> \/ target_totals_final = <<>>
    /\ stderr' = Append(stderr, "No valid flows after processing")
    /\ DrawPlaceholder
    /\ UNCHANGED <<stdin, raw_flows, exit_code, render_calls, layout_calls,
                   prepVars, drawVars, groupVars, layoutVars>>

\* render_sankey: node positions, colours, consumed counters, sorted flows
Layout ==
    /\ pc = "prepared"
    /\ source_totals_final # <<>> /\ target_totals_final # <<>>
    /\ src_positions' = _compute_node_positions(source_totals_final, left_x, y_start, y_end)
    /\ tgt_positions' = _compute_node_positions(target_totals_final, right_x, y_start, y_end)
    /\ layout_calls' = layout_calls + 2
    /\ LET c == _assign_colors(SortedKeysDesc(source_totals_final),
                               SortedKeysDesc(target_totals_final))
       IN  /\ src_colors' = c.src_colors
           /\ tgt_colors' = c.tgt_colors
    /\ src_consumed' = ZeroConsumed(src_positions')
    /\ tgt_consumed' = ZeroConsumed(tgt_positions')
    /\ sorted_flows' = SortedFlowsDesc(flows)
    /\ next_flow' = 1
    /\ bands' = <<>>
    /\ skipped' = 0
    /\ pc' = "bands"
    /\ UNCHANGED <<stdin, raw_flows, exit_code, stderr, render_calls, save_calls,
                   placeholder, prepVars, groupVars, layoutVars>>

\* render_sankey: one iteration of the band loop, "for f in sorted_flows"
BandStep ==
    /\ pc = "bands"
    /\ next_flow <= Len(sorted_flows)
    /\ LET f == sorted_flows[next_flow]
           src == f.source
           tgt == f.target
           val == f.value
       IN  IF ~DictHas(src_positions, src) \/ ~DictHas(tgt_positions, tgt)
           THEN /\ skipped' = skipped + 1
                /\ UNCHANGED <<src_consumed, tgt_consumed, bands>>
           ELSE LET sp == DictGet(src_positions, src, <<>>)
                    tp == DictGet(tgt_positions, tgt, <<>>)
                    src_total == DictGet(source_totals_final, src, 0)
                    tgt_total == DictGet(target_totals_final, tgt, 0)
                    flow_h_src == FlowHeight(val, src_total, sp[3])
                    flow_h_tgt == FlowHeight(val, tgt_total, tp[3])
                    flow_src_top == RSub(sp[2], DictGet(src_consumed, src, RZero))
                    flow_tgt_top == RSub(tp[2], DictGet(tgt_consumed, tgt, RZero))
                IN  /\ src_consumed' = DictSet(src_consumed, src,
                            RAdd(DictGet(src_consumed, src, RZero), flow_h_src))
                    /\ tgt_consumed' = DictSet(tgt_consumed, tgt,
                            RAdd(DictGet(tgt_consumed, tgt, RZero), flow_h_tgt))
                    /\ bands' = Append(bands,
                            [source |-> src, target |-> tgt, value |-> val,
                             x_src |-> RAdd(left_x, NODE_WIDTH),
                             y_src_top |-> flow_src_top,
                             y_src_bot |-> RSub(flow_src_top, flow_h_src),
                             x_tgt |-> right_x,
                             y_tgt_top |-> flow_tgt_top,
                             y_tgt_bot |-> RSub(flow_tgt_top, flow_h_tgt),
                             color |-> DictGet(src_colors, src, PALETTE[1]),
                             alpha |-> FlowAlpha(val, sorted_flows[1].value)])
                    /\ UNCHANGED skipped
    /\ next_flow' = next_flow + 1
    /\ UNCHANGED <<procVars, prepVars, src_positions, tgt_positions, src_colors,
                   tgt_colors, sorted_flows, groupVars, layoutVars>>

\* render_sankey after the band loop: nodes, headers, total, save(fig, output_path)
DrawNodesAndSave ==
    /\ pc = "bands"
    /\ next_flow > Len(sorted_flows)
    /\ save_calls' = save_calls + 1
    /\ pc' = "returned"
    /\ UNCHANGED <<stdin, raw_flows, exit_code, stderr, render_calls, layout_calls,
                   placeholder, prepVars, drawVars, groupVars, layoutVars>>

\* render_sankey has returned to main, which ends: exit status 0
MainReturn ==
    /\ pc = "returned"
    /\ exit_code' = 0
    /\ pc' = "exit"
    /\ UNCHANGED <<stdin, raw_flows, stderr, render_calls, layout_calls, save_calls,
                   placeholder, prepVars, drawVars, groupVars, layoutVars>>

Next ==
    \/ Main
    \/ RenderStart
    \/ Aggregate
    \/ Group
    \/ Rewrite
    \/ Reaggregate
    \/ RenderNoValidFlows
    \/ Layout
    \/ BandStep
    \/ DrawNodesAndSave
    \/ MainReturn

Spec == Init /\ [][Next]_vars

-----------------------------------------------------------------------------
(* Claims about the process *)

\* a record the specification calls valid: positive value, both endpoints named
ValidRecord(f) == f.value > 0 /\ f.source # "" /\ f.target # ""

\* the sum of the values of the valid records among the first k of fs whose
\* source (side = 1) or target (side = 2) is name
RECURSIVE ValidSum(_, _, _, _)
ValidSum(fs, k, side, name) ==
    IF k = 0
    THEN 0
    ELSE ValidSum(fs, k - 1, side, name)
         + (IF /\ ValidRecord(fs[k])
               /\ name = (IF side = 1 THEN fs[k].source ELSE fs[k].target)
            THEN fs[k].value ELSE 0)

\* every name of a list of records, the empty name too
RecordNames(fs) ==
    {fs[i].source : i \in DOMAIN fs} \cup {fs[i].target : i \in DOMAIN fs}

PrepareDataReturned == pc \in {"prepared", "bands", "returned", "exit"} /\ flows # <<>>

\* C2: both totals maps returned by prepare_data hold at most MAX_NODES
\* distinct node names.
C2_CapRespected ==
    /\ Cardinality(DictKeys(source_totals_final)) <= MAX_NODES
    /\ Cardinality(DictKeys(target_totals_final)) <= MAX_NODES
    /\ IsDict(source_totals_final)
    /\ IsDict(target_totals_final)

\* C2 witness: prepare_data has returned, both columns were grouped and both
\* hold exactly MAX_NODES names.
C2_Witness ==
    /\ pc = "prepared"
    /\ grouped_src # {} /\ grouped_tgt # {}
    /\ Len(source_totals_final) = MAX_NODES
    /\ Len(target_totals_final) = MAX_NODES

\* the band loop of render_sankey has gone through all of sorted_flows
BandLoopDone == layout_calls > 0 /\ next_flow > Len(sorted_flows)

\* C5: after the band loop every source node's src_consumed equals the
\* node's layout height, and every target node's tgt_consumed equals the
\* node's layout height.
C5_StackingBound ==
    BandLoopDone =>
        /\ \A i \in DOMAIN src_positions :
                DictGet(src_consumed, src_positions[i][1], RZero) = src_positions[i][2][3]
        /\ \A i \in DOMAIN tgt_positions :
                DictGet(tgt_consumed, tgt_positions[i][1], RZero) = tgt_positions[i][2][3]

\* C5 witness: the loop is done in a diagram with grouped sources, where the
\* node "Other" hosts several bands on the source side and some node hosts
\* several on the target side.
C5_Witness ==
    /\ BandLoopDone
    /\ grouped_src # {}
    /\ Cardinality({i \in DOMAIN bands : bands[i].source = "Other"}) >= 2
    /\ \E i, j \in DOMAIN bands : i # j /\ bands[i].target = bands[j].target

\* the input holds no valid flow: "flows" empty or missing, or every record
\* has a value <= 0 or an empty or missing endpoint
NoValidFlow ==
    /\ stdin.kind = "object"
    /\ \A i \in DOMAIN stdin.flows : ~ValidRecord(stdin.flows[i])

\* C7: on an input with no valid flow render_sankey never calls
\* _compute_node_positions, saves the placeholder chart exactly once and
\* returns, and the process ends with exit status 0.
C7_NoDataPath ==
    NoValidFlow =>
        /\ layout_calls = 0
        /\ bands = <<>>
        /\ save_calls <= 1
        /\ (pc \in {"returned", "exit"} => (save_calls = 1 /\ placeholder))
        /\ (pc = "exit" => exit_code = 0)
        /\ (pc = "prepared" => ENABLED RenderNoValidFlows)
        /\ (pc = "returned" => ENABLED MainReturn)

\* C7 witness: the process has ended on an input whose only records with a
\* positive value lack an endpoint, so that prepare_data ran.
C7_Witness ==
    /\ NoValidFlow
    /\ pc = "exit"
    /\ \E i \in DOMAIN stdin.flows : stdin.flows[i].value > 0
    /\ source_totals = <<>>

\* C8: input that is no valid JSON: an error on standard error, exit status
\* 1, render_sankey never called, nothing saved; input that is valid JSON:
\* render_sankey is called and the exit status is 0.
C8_ExitCodes ==
    /\ stdin.kind = "invalid" =>
            /\ render_calls = 0 /\ save_calls = 0
            /\ (pc = "exit" => (exit_code = 1 /\ stderr = <<"Error: Invalid JSON input">>))
    /\ stdin.kind # "invalid" =>
            /\ (pc # "main" => render_calls = 1)
            /\ (pc = "exit" => exit_code = 0)

\* C8 amended: as C8, with exit status 0 promised only for a JSON object
\* (whose "flows", when present, is a list of records).
C8_ExitCodesObject ==
    /\ stdin.kind = "invalid" =>
            /\ render_calls = 0 /\ save_calls = 0
            /\ (pc = "exit" => (exit_code = 1 /\ stderr = <<"Error: Invalid JSON input">>))
    /\ stdin.kind # "invalid" =>
            (pc # "main" => render_calls = 1)
    /\ stdin.kind = "object" =>
            (pc = "exit" => (exit_code = 0 /\ save_calls = 1))

\* C8 witness: the process has ended on input that is no JSON.
C8_Witness == stdin.kind = "invalid" /\ pc = "exit" /\ exit_code = 1

\* _aggregate_flows has just returned into prepare_data
AggregateReturned == pc = "group"

\* C9: source_totals[n] is the sum of the values of the valid records with
\* source n, target_totals[n] likewise, and a name has an entry only if a
\* valid record carries it on that side: a discarded record adds to no total
\* and creates no node.
C9_Aggregation ==
    AggregateReturned =>
        \A name \in RecordNames(raw_flows) \cup DictKeys(source_totals)
                        \cup DictKeys(target_totals) :
            /\ DictGet(source_totals, name, 0) = ValidSum(raw_flows, Len(raw_flows), 1, name)
            /\ DictGet(target_totals, name, 0) = ValidSum(raw_flows, Len(raw_flows), 2, name)
            /\ (DictHas(source_totals, name) <=>
                    \E i \in DOMAIN raw_flows :
                        ValidRecord(raw_flows[i]) /\ raw_flows[i].source = name)
            /\ (DictHas(target_totals, name) <=>
                    \E i \in DOMAIN raw_flows :
                        ValidRecord(raw_flows[i]) /\ raw_flows[i].target = name)

\* C9 witness: _aggregate_flows has returned for a list with a discarded
\* record and a name that several valid records carry.
C9_Witness ==
    /\ AggregateReturned
    /\ \E i \in DOMAIN raw_flows : ~ValidRecord(raw_flows[i]) /\ raw_flows[i].value > 0
    /\ \E i, j \in DOMAIN raw_flows :
            /\ i # j
            /\ ValidRecord(raw_flows[i]) /\ ValidRecord(raw_flows[j])
            /\ raw_flows[i].target = raw_flows[j].target

-----------------------------------------------------------------------------
(* Further claims about _compute_node_positions *)

\* the input values of the placed nodes, in the order of col_positions
PlacedValues ==
    Listed([i \in DOMAIN col_positions |-> DictGet(col_totals, col_positions[i][1], 0)])

\* C11: in a laid out column a node whose total is strictly greater than
\* another node's total never has a strictly smaller height than that node,
\* also after the raising to the minimum floor and the redistribution.
C11_HeightFollowsValue ==
    LayoutReturned =>
        LET value == PlacedValues
            height == Listed(PlacedHeights)
        IN  \A i, j \in DOMAIN col_positions :
                value[i] > value[j] => ~RLt(height[i], height[j])

-----------------------------------------------------------------------------
(* Further claims about _group_small_nodes *)

\* C12: a totals map of more than max_nodes nodes is grouped into exactly
\* max_nodes entries, the max_nodes - 1 kept nodes and one "Other" entry,
\* also when the input holds a node named "Other".
C12_GrouperResultSize ==
    (GroupReturned /\ Len(totals) > max_nodes)
        => /\ Len(new_totals) = max_nodes
           /\ DictHas(new_totals, "Other")

-----------------------------------------------------------------------------
(* Further claims about the process *)

\* the band loop of render_sankey has started
BandLoopStarted == layout_calls > 0 /\ next_flow >= 1

\* lo <= a <= b <= hi
Within(a, b, lo, hi) == RLe(lo, a) /\ RLe(a, b) /\ RLe(b, hi)

\* C13: at every step of the band loop the consumed height of every node is
\* at most the node's height, and every emitted band's interval on the source
\* side lies within [src_y_top - src_h, src_y_top], the one on the target
\* side within [tgt_y_top - tgt_h, tgt_y_top].
C13_BandsInsideNode ==
    BandLoopStarted =>
        /\ \A i \in DOMAIN src_positions :
                RLe(DictGet(src_consumed, src_positions[i][1], RZero), src_positions[i][2][3])
        /\ \A i \in DOMAIN tgt_positions :
                RLe(DictGet(tgt_consumed, tgt_positions[i][1], RZero), tgt_positions[i][2][3])
        /\ \A b \in DOMAIN bands :
                LET sp == DictGet(src_positions, bands[b].source, <<>>)
                    tp == DictGet(tgt_positions, bands[b].target, <<>>)
                IN  /\ Within(bands[b].y_src_bot, bands[b].y_src_top, RSub(sp[2], sp[3]), sp[2])
                    /\ Within(bands[b].y_tgt_bot, bands[b].y_tgt_top, RSub(tp[2], tp[3]), tp[2])

\* C13 witness: the loop is under way, with flows still to come, and one
\* source node and one target node already host two bands each.
C13_Witness ==
    /\ pc = "bands"
    /\ next_flow <= Len(sorted_flows)
    /\ \E i, j \in DOMAIN bands : i # j /\ bands[i].source = bands[j].source
    /\ \E i, j \in DOMAIN bands : i # j /\ bands[i].target = bands[j].target

\* _rewrite_flows has just returned into prepare_data: flows is its result,
\* raw_flows the list it was given
RewriteReturned == pc = "reaggregate"

\* the name a node goes by after the grouping
Regrouped(name, grouped) == IF name \in grouped THEN "Other" ELSE name

\* the sum of the values of the valid records among the first k of fs whose
\* endpoints go by s and t after the grouping
RECURSIVE MergedSum(_, _, _, _)
MergedSum(fs, k, s, t) ==
    IF k = 0
    THEN 0
    ELSE MergedSum(fs, k - 1, s, t)
         + (IF /\ ValidRecord(fs[k])
               /\ Regrouped(fs[k].source, grouped_src) = s
               /\ Regrouped(fs[k].target, grouped_tgt) = t
            THEN fs[k].value ELSE 0)

\* the sum of the values of the valid records among the first k of fs
RECURSIVE ValidTotal(_, _)
ValidTotal(fs, k) ==
    IF k = 0
    THEN 0
    ELSE ValidTotal(fs, k - 1) + (IF ValidRecord(fs[k]) THEN fs[k].value ELSE 0)

\* the sum of the values of the first k flows of fs
RECURSIVE FlowTotal(_, _)
FlowTotal(fs, k) == IF k = 0 THEN 0 ELSE FlowTotal(fs, k - 1) + fs[k].value

\* C14: the list returned by _rewrite_flows holds at most one flow per
\* (source, target) pair, the value of each is the sum of the values of the
\* valid input flows whose endpoints go by that pair once grouped names are
\* replaced by "Other", and the returned values sum to the valid input values.
C14_RewriterMerges ==
    RewriteReturned =>
        /\ \A i, j \in DOMAIN flows :
                (flows[i].source = flows[j].source /\ flows[i].target = flows[j].target)
                    => i = j
        /\ \A i \in DOMAIN flows :
                flows[i].value =
                    MergedSum(raw_flows, Len(raw_flows), flows[i].source, flows[i].target)
        /\ FlowTotal(flows, Len(flows)) = ValidTotal(raw_flows, Len(raw_flows))

\* C14 witness: _rewrite_flows has returned a list in which a flow from
\* "Other" merges several input flows, for an input with a discarded record.
C14_Witness ==
    /\ RewriteReturned
    /\ grouped_src # {}
    /\ \E i \in DOMAIN flows : flows[i].source = "Other" /\ flows[i].value >= 2 * BulkValue
    /\ \E k \in DOMAIN raw_flows : ~ValidRecord(raw_flows[k])

\* prepare_data has just returned into render_sankey
PrepareDataJustReturned == pc = "prepared"

\* the sum of the values of the first k flows of fs whose source (side = 1)
\* or target (side = 2) is name
RECURSIVE FlowSum(_, _, _, _)
FlowSum(fs, k, side, name) ==
    IF k = 0
    THEN 0
    ELSE FlowSum(fs, k - 1, side, name)
         + (IF name = (IF side = 1 THEN fs[k].source ELSE fs[k].target)
            THEN fs[k].value ELSE 0)

\* C15: the totals returned by prepare_data are those of the returned flows:
\* source_totals[n] is the sum of the returned flows with source n,
\* target_totals[m] the sum of those with target m, and the two totals maps,
\* the returned flows and the valid input records all sum to the same value,
\* also when the input holds a real node named "Other".
C15_AuthoritativeTotals ==
    PrepareDataJustReturned =>
        /\ DictKeys(source_totals_final) = {flows[i].source : i \in DOMAIN flows}
        /\ DictKeys(target_totals_final) = {flows[i].target : i \in DOMAIN flows}
        /\ \A i \in DOMAIN source_totals_final :
                source_totals_final[i][2] =
                    FlowSum(flows, Len(flows), 1, source_totals_final[i][1])
        /\ \A i \in DOMAIN target_totals_final :
                target_totals_final[i][2] =
                    FlowSum(flows, Len(flows), 2, target_totals_final[i][1])
        /\ SumValues(source_totals_final) = SumValues(target_totals_final)
        /\ SumValues(source_totals_final) = FlowTotal(flows, Len(flows))
        /\ FlowTotal(flows, Len(flows)) = ValidTotal(raw_flows, Len(raw_flows))

\* C15 witness: prepare_data has returned for an input with a real source
\* "Other" that was kept while other sources were grouped into "Other".
C15_Witness ==
    /\ PrepareDataJustReturned
    /\ grouped_src # {}
    /\ "Other" \notin grouped_src
    /\ \E k \in DOMAIN raw_flows : ValidRecord(raw_flows[k]) /\ raw_flows[k].source = "Other"

\* C16: the third component returned by _aggregate_flows holds only records
\* with value > 0 and non-empty source and target: no discarded record is in
\* the returned list.
C16_AggregatorCleansFlows ==
    AggregateReturned => \A i \in DOMAIN flows : ValidRecord(flows[i])

-----------------------------------------------------------------------------
(* The order of _group_small_nodes *)

\* the grouping was triggered: the map had more than max_nodes entries
GroupingTriggered == GroupReturned /\ Len(totals) > max_nodes

\* the i-th input node comes before the j-th in the value-descending order
\* that keeps the insertion order of equal values
ComesBefore(i, j) ==
    \/ totals[i][2] > totals[j][2]
    \/ totals[i][2] = totals[j][2] /\ i < j

\* the names of the first max_nodes - 1 input nodes of that order
TopNames ==
    {totals[i][1] : i \in {k \in DOMAIN totals :
        Cardinality({j \in DOMAIN totals : ComesBefore(j, k)}) < max_nodes - 1}}

\* C17: when grouping triggers, the kept names are the first max_nodes - 1
\* nodes of the value-descending stable order (so a kept node's value is >=
\* every grouped node's value, and of two equal nodes the one inserted
\* earlier is kept first), and the grouped set is exactly the other names.
C17_GrouperKeepsLargest ==
    GroupingTriggered =>
        /\ grouped_names = DictKeys(totals) \ TopNames
        /\ DictKeys(new_totals) = TopNames \cup {"Other"}
        /\ \A i \in DOMAIN totals :
                (totals[i][1] \in TopNames /\ totals[i][1] # "Other")
                    => DictGet(new_totals, totals[i][1], 0) = totals[i][2]
        /\ \A i, j \in DOMAIN totals :
                (totals[i][1] \notin grouped_names /\ totals[j][1] \in grouped_names)
                    => ComesBefore(i, j)

\* C17 witness: a grouping where a kept node and a grouped node have the
\* same value, and another grouped node has a smaller value than a kept one.
C17_Witness ==
    /\ GroupingTriggered
    /\ \E i, j \in DOMAIN totals :
            /\ totals[i][1] \notin grouped_names /\ totals[j][1] \in grouped_names
            /\ totals[i][2] = totals[j][2]
    /\ \E i, j \in DOMAIN totals :
            /\ totals[i][1] \notin grouped_names /\ totals[j][1] \in grouped_names
            /\ totals[i][2] > totals[j][2]

-----------------------------------------------------------------------------
(* The redistribution and the placement of _compute_node_positions *)

\* the locals of the call: sorted_nodes, raw_heights, adjusted (as the
\* minimum-height loop leaves it) and stolen
ColSortedNodes == SortedByValueDesc(col_totals)

ColRawHeights ==
    RawHeights(ColSortedNodes, SumValues(ColSortedNodes),
               RSub(AvailableHeight, RMul(AvailableHeight, NODE_PAD_FRAC)))

ColAdjusted == EnforceMinimum(ColRawHeights, MinHeight)

ColStolen == Stolen(ColRawHeights, MinHeight)

\* the call laid a column out: totals non-empty with a positive sum
ColumnLaidOut == LayoutReturned /\ col_positions # <<>>

\* C18: whenever stolen > 0 and some node is strictly above the floor, the
\* nodes strictly above the floor lose stolen in all, each of them loses
\* stolen times its height over large_total, and the nodes at the floor keep
\* their height.
C18_RedistributionBalances ==
    ColumnLaidOut =>
        LET adjusted == ColAdjusted
            stolen == ColStolen
            height == Listed(PlacedHeights)
            large == {i \in DOMAIN adjusted : RLt(MinHeight, adjusted[i][2])}
            large_total == RSum([i \in DOMAIN adjusted |->
                                    IF i \in large THEN adjusted[i][2] ELSE RZero])
            removed == RSum([i \in DOMAIN adjusted |->
                                    IF i \in large
                                    THEN RSub(adjusted[i][2], height[i])
                                    ELSE RZero])
        IN  (RLt(RZero, stolen) /\ large # {}) =>
                /\ removed = stolen
                /\ \A i \in large :
                        RSub(adjusted[i][2], height[i])
                            = RMul(RDiv(adjusted[i][2], large_total), stolen)
                /\ \A i \in DOMAIN adjusted \ large : height[i] = adjusted[i][2]

\* C18 witness: a column with a node raised to the floor and at least two
\* nodes above the floor that pay for it.
C18_Witness ==
    /\ ColumnLaidOut
    /\ RLt(RZero, ColStolen)
    /\ Cardinality({i \in DOMAIN col_positions : RLt(MinHeight, ColAdjusted[i][2])}) >= 2

\* C19: when stolen > 0 and no node is strictly above the floor, nothing is
\* redistributed, every node has exactly the floor height, and the node
\* heights plus the gaps between the nodes are at most y_end - y_start.
C19_DegenerateFloorFallsShort ==
    ColumnLaidOut =>
        LET adjusted == ColAdjusted
            height == Listed(PlacedHeights)
        IN  (/\ RLt(RZero, ColStolen)
             /\ \A i \in DOMAIN adjusted : ~RLt(MinHeight, adjusted[i][2]))
                => /\ \A i \in DOMAIN adjusted : height[i] = adjusted[i][2]
                   /\ \A i \in DOMAIN height : height[i] = MinHeight
                   /\ RLe(RAdd(RSum(height), RSum(PlacedGaps)), AvailableHeight)

\* the place of each placed node in the argument totals
PlacedInputIndex ==
    Listed([i \in DOMAIN col_positions |->
        CHOOSE k \in DOMAIN col_totals : col_totals[k][1] = col_positions[i][1]])

\* pad_each of the call
ColPadEach ==
    PadEach(Len(col_totals), RMul(AvailableHeight, NODE_PAD_FRAC))

\* C20: the nodes are placed in value-descending stable order, the first with
\* y_top = y_end, each with y_center = y_top - height / 2, each following one
\* with y_top = previous y_top - previous height - pad_each; hence, whenever
\* all heights are non-negative, y_top never increases down the column and no
\* two nodes' vertical intervals overlap.
C20_TopDownPlacement ==
    ColumnLaidOut =>
        LET n == Len(col_positions)
            value == PlacedValues
            index == PlacedInputIndex
            y_center == Listed([i \in 1..n |-> col_positions[i][2][1]])
            y_top == Listed([i \in 1..n |-> col_positions[i][2][2]])
            height == Listed(PlacedHeights)
            pad_each == ColPadEach
        IN  /\ n = Len(col_totals)
            /\ \A i \in 1..(n - 1) :
                    \/ value[i] > value[i + 1]
                    \/ value[i] = value[i + 1] /\ index[i] < index[i + 1]
            /\ y_top[1] = col_y_end
            /\ \A i \in 1..n : y_center[i] = RSub(y_top[i], RDiv(height[i], RInt(2)))
            /\ \A i \in 1..(n - 1) :
                    y_top[i + 1] = RSub(RSub(y_top[i], height[i]), pad_each)
            /\ (\A i \in 1..n : RLe(RZero, height[i]))
                    => \A i \in 1..(n - 1) :
                            /\ RLe(y_top[i + 1], y_top[i])
                            /\ RLe(y_top[i + 1], RSub(y_top[i], height[i]))

\* C20 witness: a placed column of at least three nodes, two of them of equal
\* value and two of different values, with no negative height.
C20_Witness ==
    /\ ColumnLaidOut
    /\ Len(col_positions) >= 3
    /\ \E i, j \in DOMAIN col_totals : i # j /\ col_totals[i][2] = col_totals[j][2]
    /\ \E i, j \in DOMAIN col_totals : col_totals[i][2] > col_totals[j][2]
    /\ \A i \in DOMAIN col_positions : RLe(RZero, col_positions[i][2][3])

-----------------------------------------------------------------------------
(* The guards of _compute_node_positions *)

\* the sum of the values of the argument totals, added up one by one
RECURSIVE ColumnSum(_)
ColumnSum(k) == IF k = 0 THEN 0 ELSE ColumnSum(k - 1) + col_totals[k][2]

\* C21: _compute_node_positions returns an empty position map when the totals
\* map is empty or its values sum to 0 or less.
C21_ZeroTotalGuard ==
    (LayoutReturned /\ (col_totals = <<>> \/ ColumnSum(Len(col_totals)) <= 0))
        => col_positions = <<>>

\* C21 witness: the call has returned for a column of several nodes whose
\* values sum to less than 0, and for none the result holds a node.
C21_Witness ==
    /\ LayoutReturned
    /\ Len(col_totals) >= 2
    /\ ColumnSum(Len(col_totals)) < 0
    /\ col_positions = <<>>

-----------------------------------------------------------------------------
(* The drawing of the bands *)

\* the bands drawn before the j-th that share its source (side = 1) or its
\* target (side = 2)
EarlierOnNode(j, side) ==
    {i \in 1..(j - 1) :
        IF side = 1 THEN bands[i].source = bands[j].source
                    ELSE bands[i].target = bands[j].target}

\* the greatest element of a non-empty set of numbers
Latest(S) == CHOOSE i \in S : \A k \in S : k <= i

\* C22: the flows are processed in value-descending order; of two flows that
\* share a source node (or a target node) the one with the strictly larger
\* value is drawn earlier and its band on that node lies above the other's;
\* the bands on one node are contiguous, each band's top being the bottom of
\* the previous band on that node, and the first band's top the node's y_top.
C22_StackingOrder ==
    BandLoopStarted =>
        /\ \A i \in 1..(Len(sorted_flows) - 1) :
                sorted_flows[i].value >= sorted_flows[i + 1].value
        /\ \A i, j \in DOMAIN bands :
                (bands[i].value > bands[j].value) =>
                    /\ i < j
                    /\ (bands[i].source = bands[j].source)
                            => RLe(bands[j].y_src_top, bands[i].y_src_bot)
                    /\ (bands[i].target = bands[j].target)
                            => RLe(bands[j].y_tgt_top, bands[i].y_tgt_bot)
        /\ \A j \in DOMAIN bands :
                /\ bands[j].y_src_top =
                        (IF EarlierOnNode(j, 1) = {}
                         THEN DictGet(src_positions, bands[j].source, <<>>)[2]
                         ELSE bands[Latest(EarlierOnNode(j, 1))].y_src_bot)
                /\ bands[j].y_tgt_top =
                        (IF EarlierOnNode(j, 2) = {}
                         THEN DictGet(tgt_positions, bands[j].target, <<>>)[2]
                         ELSE bands[Latest(EarlierOnNode(j, 2))].y_tgt_bot)

\* C22 witness: bands were drawn of which two share a source and differ in
\* value, and two share a target and differ in value.
C22_Witness ==
    /\ BandLoopStarted
    /\ \E i, j \in DOMAIN bands :
            bands[i].source = bands[j].source /\ bands[i].value > bands[j].value
    /\ \E i, j \in DOMAIN bands :
            bands[i].target = bands[j].target /\ bands[i].value > bands[j].value

\* the largest value among the flows prepare_data returned
MaxFlowValue == CHOOSE v \in {flows[i].value : i \in DOMAIN flows} :
                    \A i \in DOMAIN flows : flows[i].value <= v

\* C23: every drawn flow has alpha = FLOW_ALPHA + (FLOW_ALPHA_HOVER -
\* FLOW_ALPHA) * value / maxFlowValue, with maxFlowValue the largest value of
\* the rewritten flows; so alpha is above FLOW_ALPHA, at most
\* FLOW_ALPHA_HOVER, equal to it for the largest flow, and a flow of larger
\* value never has a smaller alpha.
C23_FlowAlpha ==
    BandLoopStarted =>
        /\ \A b \in DOMAIN bands :
                /\ RMul(RSub(bands[b].alpha, FLOW_ALPHA), RInt(MaxFlowValue))
                        = RMul(RSub(FLOW_ALPHA_HOVER, FLOW_ALPHA), RInt(bands[b].value))
                /\ RLt(FLOW_ALPHA, bands[b].alpha)
                /\ RLe(bands[b].alpha, FLOW_ALPHA_HOVER)
                /\ (bands[b].value = MaxFlowValue) => (bands[b].alpha = FLOW_ALPHA_HOVER)
        /\ \A a, b \in DOMAIN bands :
                (bands[a].value > bands[b].value) => ~RLt(bands[a].alpha, bands[b].alpha)

\* C23 witness: the largest flow and a smaller flow have both been drawn.
C23_Witness ==
    /\ BandLoopStarted
    /\ \E a, b \in DOMAIN bands :
            bands[a].value = MaxFlowValue /\ bands[b].value < MaxFlowValue

\* render_sankey has assigned the colours
ColoursAssigned == layout_calls > 0

\* the place of a colour in PALETTE
PaletteIndex(c) == CHOOSE k \in DOMAIN PALETTE : PALETTE[k] = c

\* the colour that follows c in PALETTE, the first one after the last
NextColour(c) == PALETTE[(PaletteIndex(c) % Len(PALETTE)) + 1]

\* colours is a column's colour map over the column's totals: the nodes in
\* value-descending order, each next node with the next colour of the cycle
RankColoured(colours, column) ==
    /\ DictKeys(colours) = DictKeys(column)
    /\ Len(colours) = Len(column)
    /\ \A i \in 1..(Len(colours) - 1) :
            /\ DictGet(column, colours[i][1], 0) >= DictGet(column, colours[i + 1][1], 0)
            /\ colours[i + 1][2] = NextColour(colours[i][2])
    /\ \A i, j \in DOMAIN colours :
            (colours[i][2] = colours[j][2]) => ((i - j) % Len(PALETTE) = 0)

\* C24: in each column the node at value-descending rank i + 1 has the
\* palette colour that cyclically follows the colour of the node at rank i,
\* so two nodes of a column share a colour only if their ranks differ by a
\* multiple of the palette length; and every flow is drawn in the colour
\* assigned to its source node, never in the fallback colour for want of one.
C24_RankColours ==
    ColoursAssigned =>
        /\ RankColoured(src_colors, source_totals_final)
        /\ RankColoured(tgt_colors, target_totals_final)
        /\ \A b \in DOMAIN bands :
                /\ DictHas(src_colors, bands[b].source)
                /\ bands[b].color = DictGet(src_colors, bands[b].source, "")

\* C24 witness: bands were drawn in a diagram whose source column has more
\* nodes than the palette has colours, so that two sources share a colour.
C24_Witness ==
    /\ ColoursAssigned
    /\ Len(src_colors) > Len(PALETTE)
    /\ \E i, j \in DOMAIN src_colors : i # j /\ src_colors[i][2] = src_colors[j][2]
    /\ \E a, b \in DOMAIN bands : bands[a].color # bands[b].color

\* the names that were merged away in one column and not in the other
\* (side = 1: merged away as sources only, side = 2: as targets only)
OneSided(side) ==
    (IF side = 1 THEN grouped_src \ grouped_tgt ELSE grouped_tgt \ grouped_src) \ {"Other"}

\* C25: a name merged away in the source column but kept in the target
\* column goes by "Other" only where it is the source of a flow and keeps its
\* own name, with all its value, where it is the target; and the other way
\* round for a name merged away in the target column only.
C25_ColumnIndependence ==
    RewriteReturned =>
        /\ \A n \in OneSided(1) :
                /\ \A i \in DOMAIN flows : flows[i].source # n
                /\ FlowSum(flows, Len(flows), 2, n) = ValidSum(raw_flows, Len(raw_flows), 2, n)
        /\ \A n \in OneSided(2) :
                /\ \A i \in DOMAIN flows : flows[i].target # n
                /\ FlowSum(flows, Len(flows), 1, n) = ValidSum(raw_flows, Len(raw_flows), 1, n)

\* C25 witness: a name was merged away as a source and is the target of a
\* rewritten flow under its own name, and another name the other way round.
C25_Witness ==
    /\ RewriteReturned
    /\ \E n \in OneSided(1) : \E i \in DOMAIN flows : flows[i].target = n
    /\ \E n \in OneSided(2) : \E i \in DOMAIN flows : flows[i].source = n

\* no node of the input is named "Other"
NoOtherInInput ==
    \A k \in DOMAIN raw_flows :
        ValidRecord(raw_flows[k]) =>
            (raw_flows[k].source # "Other" /\ raw_flows[k].target # "Other")

\* two totals maps with the same entries, in whatever order
SameEntries(d, e) ==
    /\ Len(d) = Len(e)
    /\ {d[i] : i \in DOMAIN d} = {e[i] : i \in DOMAIN e}

\* C26: on an input without a node named "Other" the totals prepare_data
\* recomputes from the rewritten flows equal, name by name and value by
\* value, the totals _group_small_nodes returned for the first aggregate.
C26_ReaggregationAgrees ==
    (PrepareDataJustReturned /\ NoOtherInInput) =>
        /\ SameEntries(source_totals_final, source_totals)
        /\ SameEntries(target_totals_final, target_totals)

\* C26 witness: prepare_data has returned for an input without "Other" where
\* both columns were grouped and a free record came before the generated ones.
C26_Witness ==
    /\ PrepareDataJustReturned
    /\ NoOtherInInput
    /\ grouped_src # {} /\ grouped_tgt # {}
    /\ \E k \in DOMAIN raw_flows : ValidRecord(raw_flows[k]) /\ raw_flows[k].value # BulkValue

\* the names of a map, in the map's order
NamesInOrder(d) == [i \in DOMAIN d |-> d[i][1]]

\* C27: the value-descending name order render_sankey computes for the
\* colours is, also for nodes of equal totals, the top-to-bottom order in
\* which _compute_node_positions places the nodes of the same column.
C27_OneRankOrder ==
    ColoursAssigned =>
        /\ NamesInOrder(src_colors) = NamesInOrder(src_positions)
        /\ NamesInOrder(tgt_colors) = NamesInOrder(tgt_positions)
        /\ \A i \in 1..(Len(src_positions) - 1) :
                RLe(src_positions[i + 1][2][2], src_positions[i][2][2])
        /\ \A i \in 1..(Len(tgt_positions) - 1) :
                RLe(tgt_positions[i + 1][2][2], tgt_positions[i][2][2])

\* C27 witness: the colours were assigned for a source column in which several
\* nodes have equal totals and one has a different total.
C27_Witness ==
    /\ ColoursAssigned
    /\ \E i, j \in DOMAIN source_totals_final :
            i # j /\ source_totals_final[i][2] = source_totals_final[j][2]
    /\ \E i, j \in DOMAIN source_totals_final :
            source_totals_final[i][2] > source_totals_final[j][2]

-----------------------------------------------------------------------------
(* Columns as prepare_data produces them: 1 to MAX_NODES nodes, every total *)
(* positive                                                                *)

PipelineColumn ==
    /\ Len(col_totals) \in 1..MAX_NODES
    /\ \A i \in DOMAIN col_totals : col_totals[i][2] > 0

\* C28: in a column of 1 to 15 nodes with positive totals, whenever stolen > 0
\* some node is strictly above the floor and stolen < large_total, so that
\* every node height returned is strictly positive.
C28_NeverDegenerate ==
    (LayoutReturned /\ PipelineColumn) =>
        LET adjusted == ColAdjusted
            stolen == ColStolen
            large == {i \in DOMAIN adjusted : RLt(MinHeight, adjusted[i][2])}
            large_total == RSum([i \in DOMAIN adjusted |->
                                    IF i \in large THEN adjusted[i][2] ELSE RZero])
        IN  /\ RLt(RZero, stolen) => (large # {} /\ RLt(stolen, large_total))
            /\ Len(col_positions) = Len(col_totals)
            /\ \A i \in DOMAIN col_positions : RLt(RZero, col_positions[i][2][3])

\* C28 witness: a column of MAX_NODES nodes was laid out in which some nodes
\* were raised to the floor.
C28_Witness ==
    /\ LayoutReturned
    /\ PipelineColumn
    /\ Len(col_totals) = MAX_NODES
    /\ RLt(RZero, ColStolen)


\* the number of emitted bands that draw the flow f
TimesDrawn(f) ==
    Cardinality({j \in DOMAIN bands :
                    /\ bands[j].source = f.source
                    /\ bands[j].target = f.target
                    /\ bands[j].value = f.value})

\* C29: in render_sankey, once both totals maps are non-empty, every flow
\* returned by prepare_data has its source in src_positions and its target in
\* tgt_positions with a strictly positive node total, so the band loop never
\* skips a flow and never takes a zero-total guard, and after the loop every
\* rewritten flow has been drawn exactly once.
C29_SkipBranchDead ==
    /\ skipped = 0
    /\ BandLoopStarted =>
            \A i \in DOMAIN flows :
                /\ DictHas(src_positions, flows[i].source)
                /\ DictHas(tgt_positions, flows[i].target)
                /\ DictGet(source_totals_final, flows[i].source, 0) > 0
                /\ DictGet(target_totals_final, flows[i].target, 0) > 0
    /\ BandLoopDone =>
            /\ Len(bands) = Len(flows)
            /\ \A i \in DOMAIN flows : TimesDrawn(flows[i]) = 1

\* C29 witness: the band loop is done in a diagram of several flows, one of
\* them rewritten to "Other", whose input held a discarded record.
C29_Witness ==
    /\ BandLoopDone
    /\ Len(flows) > 1
    /\ \E i \in DOMAIN flows : flows[i].source = "Other"
    /\ \E i \in DOMAIN raw_flows : ~ValidRecord(raw_flows[i])
    /\ Len(bands) = Len(flows)


\* C30: in a column of 1 to 15 nodes with positive totals every placed node
\* satisfies y_start <= y_top - height and y_top <= y_end: no node extends
\* below the bottom or above the top of the column's vertical span.
C30_NodesInsideSpan ==
    (LayoutReturned /\ PipelineColumn) =>
        /\ Len(col_positions) = Len(col_totals)
        /\ \A i \in DOMAIN col_positions :
                LET y_top == col_positions[i][2][2]
                    height == col_positions[i][2][3]
                IN  /\ RLe(col_y_start, RSub(y_top, height))
                    /\ RLe(y_top, col_y_end)

\* C30 witness: a column of MAX_NODES nodes was laid out, some of them raised
\* to the floor, and its last node ends exactly at y_start.
C30_Witness ==
    /\ LayoutReturned
    /\ PipelineColumn
    /\ Len(col_positions) = MAX_NODES
    /\ \E i \in DOMAIN col_positions : col_positions[i][2][3] = MinHeight
    /\ LET last == col_positions[Len(col_positions)][2]
       IN  RSub(last[2], last[3]) = col_y_start

====
